---- MODULE Spec2Model ----
(***************************************************************************)
(* Math tutor evaluation harness (src/evaluator.py, src/main.py).          *)
(* Text is a sequence of one-character strings; a character outside ASCII  *)
(* is written as its code point ("U+00AC").  The regular expressions of    *)
(* the evaluator are operators on such sequences, one per pattern.         *)
(***************************************************************************)
EXTENDS Integers, Sequences, FiniteSets, TLC

(* ------------------------------------------------------------------ *)
(* Characters and the str / re primitives the evaluator uses          *)
(* ------------------------------------------------------------------ *)

Chars(s) == [i \in 1..Len(s) |-> SubSeq(s, i, i)]

UpperCase == Chars("ABCDEFGHIJKLMNOPQRSTUVWXYZ")
LowerCase == Chars("abcdefghijklmnopqrstuvwxyz")
Digit == {"0", "1", "2", "3", "4", "5", "6", "7", "8", "9"}
Letter == {UpperCase[i] : i \in 1..26} \cup {LowerCase[i] : i \in 1..26}
                \cup {"U+0153", "U+0152", "U+00C4", "U+00E4"}
\* \s of a str pattern, and what str.strip() removes
Space == {" ", "\t", "\n", "\r", "\f"}
\* \w of a str pattern
WordChar == Letter \cup Digit \cup {"_"}

\* str.lower() of one character (also the folding re.IGNORECASE applies)
LowerChar(c) ==
    IF \E i \in 1..26 : UpperCase[i] = c
    THEN LowerCase[CHOOSE i \in 1..26 : UpperCase[i] = c]
    ELSE IF c = "U+0152" THEN "U+0153"
    ELSE IF c = "U+00C4" THEN "U+00E4"
    ELSE c

Lower(s) == [i \in 1..Len(s) |-> LowerChar(s[i])]

\* the character at position i, "" past the end
At(s, i) == IF i >= 1 /\ i <= Len(s) THEN s[i] ELSE ""

\* a literal of a pattern matches at position i (re.IGNORECASE)
MatchLit(s, i, lit) ==
    /\ i >= 1
    /\ i + Len(lit) - 1 <= Len(s)
    /\ \A k \in 1..Len(lit) : LowerChar(s[i + k - 1]) = LowerChar(lit[k])

\* position after the longest run of characters of class C starting at i
SkipWhile(s, i, C) ==
    IF i > Len(s) THEN i
    ELSE CHOOSE j \in i..(Len(s) + 1) :
            /\ \A k \in i..(j - 1) : s[k] \in C
            /\ (j = Len(s) + 1 \/ s[j] \notin C)

\* re.search(literal, s, re.IGNORECASE) is not None
Contains(s, lit) == \E i \in 1..Len(s) : MatchLit(s, i, lit)

\* a in b, for two str values
IsSubstring(a, b) ==
    \E i \in 1..(Len(b) - Len(a) + 1) : SubSeq(b, i, i + Len(a) - 1) = a

\* str.strip()
Strip(s) ==
    IF \A i \in 1..Len(s) : s[i] \in Space THEN <<>>
    ELSE LET a == CHOOSE i \in 1..Len(s) :
                      s[i] \notin Space /\ \A k \in 1..(i - 1) : s[k] \in Space
             b == CHOOSE i \in 1..Len(s) :
                      s[i] \notin Space /\ \A k \in (i + 1)..Len(s) : s[k] \in Space
         IN  SubSeq(s, a, b)

\* str.split('\n'): the lines of s, as a sequence of texts
SplitLines(s) ==
    LET newlines == {i \in 1..Len(s) : s[i] = "\n"}
        \* the position of the k-th newline; 0 and Len(s) + 1 bound the text
        nth(k) == IF k = 0 THEN 0
                  ELSE IF k = Cardinality(newlines) + 1 THEN Len(s) + 1
                  ELSE CHOOSE p \in newlines :
                          Cardinality({q \in newlines : q < p}) = k - 1
    IN  [k \in 1..(Cardinality(newlines) + 1) |->
            SubSeq(s, nth(k - 1) + 1, nth(k) - 1)]

\* the least element of a non-empty set of positions (re.search is leftmost)
Leftmost(S) == CHOOSE i \in S : \A j \in S : i <= j

NoMatch == [matched |-> FALSE, group |-> <<>>]
Matched(g) == [matched |-> TRUE, group |-> g]

(* ------------------------------------------------------------------ *)
(* extract_final_answer: the five patterns, in order, then the        *)
(* last line holding a digit, then the sentinel                       *)
(* ------------------------------------------------------------------ *)

\* position of the first newline at or after i, Len(s) + 1 when there is none
LineEnd(s, i) ==
    CHOOSE j \in i..(Len(s) + 1) :
        /\ \A k \in i..(j - 1) : s[k] # "\n"
        /\ (j = Len(s) + 1 \/ s[j] = "\n")

AnswerLabels == {Chars("Answer"), Chars("Final Answer"), Chars("Result")}

\* After "<label>:" ending before position p:  \s*(.+?)(?:\n|$)
\* \s* is greedy and gives characters back one at a time; (.+?) starts at
\* the first position g, from the end of the blank run backwards, that holds
\* a character other than a newline, and stops before the next newline.
Pattern1GroupStart(s, p) ==
    LET w == SkipWhile(s, p, Space)
        ok == {g \in p..w : g <= Len(s) /\ s[g] # "\n"}
    IN  IF ok = {} THEN 0 ELSE CHOOSE g \in ok : \A h \in ok : h <= g

Pattern1(s) ==
    LET starts == {i \in 1..Len(s) :
                     \E lab \in AnswerLabels :
                        /\ MatchLit(s, i, lab \o <<":">>)
                        /\ Pattern1GroupStart(s, i + Len(lab) + 1) # 0}
    IN  IF starts = {} THEN NoMatch
        ELSE LET i == Leftmost(starts)
                 lab == CHOOSE l \in AnswerLabels : MatchLit(s, i, l \o <<":">>)
                 g == Pattern1GroupStart(s, i + Len(lab) + 1)
             IN  Matched(SubSeq(s, g, LineEnd(s, g) - 1))

\* (?:x\s*=\s*|=\s*)([0-9.+-]+)
NumSign == Digit \cup {".", "+", "-"}

\* position of the group when the pattern matches at i, else 0
Pattern2GroupStart(s, i) ==
    LET eq == IF LowerChar(At(s, i)) = "x" THEN SkipWhile(s, i + 1, Space) ELSE i
        g  == SkipWhile(s, eq + 1, Space)
    IN  IF At(s, eq) = "=" /\ At(s, g) \in NumSign THEN g ELSE 0

Pattern2(s) ==
    LET starts == {i \in 1..Len(s) : Pattern2GroupStart(s, i) # 0}
    IN  IF starts = {} THEN NoMatch
        ELSE LET g == Pattern2GroupStart(s, Leftmost(starts))
             IN  Matched(SubSeq(s, g, SkipWhile(s, g, NumSign) - 1))

\* ([0-9.]+\s*(?:cm<U+00AC><U+2264>|cm|km/hr|<U+00AC><U+221E>|degrees)?), the
\* alternatives in order
Units == << Chars("cm") \o <<"U+00AC", "U+2264">>, Chars("cm"), Chars("km/hr"),
            <<"U+00AC", "U+221E">>, Chars("degrees") >>

Pattern3(s) ==
    LET starts == {i \in 1..Len(s) : s[i] \in Digit \cup {"."}}
    IN  IF starts = {} THEN NoMatch
        ELSE LET i == Leftmost(starts)
                 r == SkipWhile(s, i, Digit \cup {"."})
                 w == SkipWhile(s, r, Space)
                 us == {u \in 1..Len(Units) : MatchLit(s, w, Units[u])}
                 e == IF us = {} THEN w ELSE w + Len(Units[Leftmost(us)])
             IN  Matched(SubSeq(s, i, e - 1))

\* (\d+/\d+)
Pattern4(s) ==
    LET ok(i) == /\ s[i] \in Digit
                 /\ At(s, SkipWhile(s, i, Digit)) = "/"
                 /\ At(s, SkipWhile(s, i, Digit) + 1) \in Digit
        starts == {i \in 1..Len(s) : ok(i)}
    IN  IF starts = {} THEN NoMatch
        ELSE LET i == Leftmost(starts)
                 d == SkipWhile(s, i, Digit) + 1
             IN  Matched(SubSeq(s, i, SkipWhile(s, d, Digit) - 1))

\* x\s*=\s*[0-9]+ at position i: the position after it, else 0
XEqualsEnd(s, i) ==
    LET eq == SkipWhile(s, i + 1, Space)
        d  == SkipWhile(s, eq + 1, Space)
    IN  IF LowerChar(At(s, i)) = "x" /\ At(s, eq) = "=" /\ At(s, d) \in Digit
        THEN SkipWhile(s, d, Digit) ELSE 0

\* (x\s*=\s*[0-9]+(?:\s*or\s*x\s*=\s*[0-9]+)?)
Pattern5(s) ==
    LET starts == {i \in 1..Len(s) : XEqualsEnd(s, i) # 0}
    IN  IF starts = {} THEN NoMatch
        ELSE LET i == Leftmost(starts)
                 e == XEqualsEnd(s, i)
                 o == SkipWhile(s, e, Space)
                 x2 == SkipWhile(s, o + 2, Space)
                 e2 == IF MatchLit(s, o, Chars("or")) THEN XEqualsEnd(s, x2) ELSE 0
             IN  Matched(SubSeq(s, i, (IF e2 # 0 THEN e2 ELSE e) - 1))

Sentinel == Chars("No answer found")

\* lines 40-46: the last line holding a digit, stripped, else the sentinel
LastDigitLine(s) ==
    LET lines == SplitLines(Strip(s))
        has == {n \in 1..Len(lines) : \E k \in 1..Len(lines[n]) : lines[n][k] \in Digit}
    IN  IF has = {} THEN Sentinel
        ELSE Strip(lines[CHOOSE n \in has : \A m \in has : m <= n])

extract_final_answer(response_text) ==
    LET ms == << Pattern1(response_text), Pattern2(response_text),
                 Pattern3(response_text), Pattern4(response_text),
                 Pattern5(response_text) >>
        hit == {n \in 1..5 : ms[n].matched}
    IN  IF hit # {} THEN Strip(ms[Leftmost(hit)].group)
        ELSE LastDigitLine(response_text)

(* ------------------------------------------------------------------ *)
(* The scorers                                                        *)
(* ------------------------------------------------------------------ *)

\* re.sub(r'[^\w\d./=\s]', '', str(a).lower())
KeptByClean(c) == c \in WordChar \cup {".", "/", "="} \cup Space
Clean(a) == SelectSeq(Lower(a), KeptByClean)

\* re.findall(r'[0-9.]+', s): its first element; <<>> when the list is empty
\* (a run is never empty, so <<>> stands for "no element")
FirstNumber(s) ==
    LET starts == {i \in 1..Len(s) : s[i] \in Digit \cup {"."}}
    IN  IF starts = {} THEN <<>>
        ELSE LET i == Leftmost(starts)
             IN  SubSeq(s, i, SkipWhile(s, i, Digit \cup {"."}) - 1)

\* score_accuracy were it to ask for equal normalized strings
score_accuracy_exact_match(expected_answer, actual) ==
    IF Clean(expected_answer) = Clean(actual) THEN 1 ELSE 0

\* score_accuracy were an answer with nothing left after the cleaning
\* counted as wrong
score_accuracy_blank_is_wrong(expected_answer, actual) ==
    IF Clean(actual) = <<>> THEN 0
    ELSE IF IsSubstring(Clean(expected_answer), Clean(actual))
            \/ IsSubstring(Clean(actual), Clean(expected_answer)) THEN 1
    ELSE IF /\ FirstNumber(Clean(expected_answer)) # <<>>
            /\ FirstNumber(Clean(actual)) # <<>>
            /\ FirstNumber(Clean(expected_answer)) = FirstNumber(Clean(actual)) THEN 1
    ELSE 0

\* 1 is the float 1.0 and 0 the float 0.0
score_accuracy(expected_answer, actual) ==
    LET expected_clean == Clean(expected_answer)
        actual_clean == Clean(actual)
    IN  IF IsSubstring(expected_clean, actual_clean)
           \/ IsSubstring(actual_clean, expected_clean) THEN 1
        ELSE IF /\ FirstNumber(expected_clean) # <<>>
                /\ FirstNumber(actual_clean) # <<>>
                /\ FirstNumber(expected_clean) = FirstNumber(actual_clean) THEN 1
        ELSE 0

ContainsAny(s, words) == \E w \in words : Contains(s, Chars(w))

\* step\s*\d+
HasStepNumber(s) ==
    \E i \in 1..Len(s) :
        /\ MatchLit(s, i, Chars("step"))
        /\ At(s, SkipWhile(s, i + 4, Space)) \in Digit

Min(a, b) == IF a <= b THEN a ELSE b
Bonus(b) == IF b THEN 1 ELSE 0

score_reasoning_clarity(response_text) ==
    LET structure == HasStepNumber(response_text)
                     \/ ContainsAny(response_text,
                           {"first", "second", "third", "next", "then", "finally"})
        explains == ContainsAny(response_text,
                       {"because", "since", "therefore", "thus", "so", "reason",
                        "explanation"})
        formula == ContainsAny(response_text,
                       {"formula", "equation", "method", "approach", "technique"})
        lines == SplitLines(Strip(response_text))
    IN  Min(1 + Bonus(structure) + Bonus(explains) + Bonus(formula)
              + Bonus(Len(lines) >= 3), 5)

\* <trig>\s*<angle><U+00AC><U+221E>?\s*=\s*(?!<good values>): \s* gives blanks
\* back, so the lookahead may be tried at any position g of the blank run
\* after "="
TrigFact(s, trig, angle, good) ==
    \E i \in 1..Len(s) :
        LET j == SkipWhile(s, i + Len(trig), Space)
            k == j + Len(angle) + 1
            e == SkipWhile(s, IF At(s, k) = "U+221E" THEN k + 1 ELSE k, Space)
            w == SkipWhile(s, e + 1, Space)
        IN  /\ MatchLit(s, i, trig)
            /\ MatchLit(s, j, angle \o <<"U+00AC">>)
            /\ At(s, e) = "="
            /\ \E g \in (e + 1)..w : \A v \in good : ~MatchLit(s, g, Chars(v))

\* <U+0153><U+00C4>\s*=\s*[^2][^2]
PiFact(s) ==
    \E i \in 1..Len(s) :
        LET e == SkipWhile(s, i + 2, Space)
            w == SkipWhile(s, e + 1, Space)
        IN  /\ MatchLit(s, i, <<"U+0153", "U+00C4">>)
            /\ At(s, e) = "="
            /\ \E g \in (e + 1)..w :
                  g + 1 <= Len(s) /\ s[g] # "2" /\ s[g + 1] # "2"

\* the three patterns of incorrect_facts, in order
incorrect_facts(s) ==
    << PiFact(s),
       TrigFact(s, Chars("sin"), Chars("30"), {"0.5", "1/2"}),
       TrigFact(s, Chars("cos"), Chars("90"), {"0"}) >>

\* word at position i and then a blank run of at least `least` characters:
\* the position after the run, else 0
AfterWord(s, i, word, least) ==
    LET j == i + Len(Chars(word))
        k == SkipWhile(s, j, Space)
    IN  IF i >= 1 /\ MatchLit(s, i, Chars(word)) /\ k - j >= least THEN k ELSE 0

\* re.search of  a sep b , sep being \s+ (least = 1) or \s* (least = 0)
SearchTwo(s, a, b, least) ==
    \E i \in 1..Len(s) :
        LET j == AfterWord(s, i, a, least)
        IN  j # 0 /\ MatchLit(s, j, Chars(b))

\* re.search of  a\s+b\s+c
SearchThree(s, a, b, c) ==
    \E i \in 1..Len(s) :
        LET j == AfterWord(s, i, a, 1)
            k == AfterWord(s, j, b, 1)
        IN  j # 0 /\ k # 0 /\ MatchLit(s, k, Chars(c))

\* divide\s+by\s+zero|infinity\s*=|negative\s+square\s+root
impossible_statement(s) ==
    \/ SearchThree(s, "divide", "by", "zero")
    \/ SearchTwo(s, "infinity", "=", 0)
    \/ SearchThree(s, "negative", "square", "root")

\* always\s+never|never\s+always|impossible\s+possible
contradictory_statement(s) ==
    \/ SearchTwo(s, "always", "never", 1)
    \/ SearchTwo(s, "never", "always", 1)
    \/ SearchTwo(s, "impossible", "possible", 1)

\* score_hallucination were each check to add at most 1: the false facts
\* counted once, however many of their patterns match
score_hallucination_once_per_check(response_text) ==
    LET facts == incorrect_facts(response_text)
    IN  Min(Bonus(\E n \in 1..Len(facts) : facts[n])
              + Bonus(impossible_statement(response_text))
              + Bonus(contradictory_statement(response_text)), 3)

\* score_hallucination without the min of line 117
score_hallucination_uncapped(response_text) ==
    LET facts == incorrect_facts(response_text)
    IN  Cardinality({n \in 1..Len(facts) : facts[n]})
            + Bonus(impossible_statement(response_text))
            + Bonus(contradictory_statement(response_text))

score_hallucination(response_text) ==
    LET facts == incorrect_facts(response_text)
    IN  Min(Cardinality({n \in 1..Len(facts) : facts[n]})
              + Bonus(impossible_statement(response_text))
              + Bonus(contradictory_statement(response_text)), 3)

(* ------------------------------------------------------------------ *)
(* Python floats (IEEE 754 binary64): a value >= 0 is zero or           *)
(* mant * 2^(exp - MantBits + 1), mant being MantBits bits, most        *)
(* significant first, the first of them 1.  Rounding is to nearest,     *)
(* ties to even.                                                        *)
(* ------------------------------------------------------------------ *)

MantBits == 53

Zeros(n) == [i \in 1..n |-> 0]
FloatZero == [zero |-> TRUE, exp |-> 0, mant |-> Zeros(MantBits)]
FloatOne == [zero |-> FALSE, exp |-> 0, mant |-> <<1>> \o Zeros(MantBits - 1)]

\* bits + 1, for a bit sequence that is not all ones
Increment(bits) ==
    LET p == CHOOSE i \in 1..Len(bits) :
                 bits[i] = 0 /\ \A k \in (i + 1)..Len(bits) : bits[k] = 1
    IN  [i \in 1..Len(bits) |-> IF i < p THEN bits[i] ELSE IF i = p THEN 1 ELSE 0]

\* The float nearest to bits * 2^(e - Len(bits) + 1), bits starting with 1;
\* sticky says that the exact value has further non-zero bits below bits.
RoundToFloat(bits, e, sticky) ==
    IF Len(bits) <= MantBits
    THEN [zero |-> FALSE, exp |-> e, mant |-> bits \o Zeros(MantBits - Len(bits))]
    ELSE LET keep == SubSeq(bits, 1, MantBits)
             guard == bits[MantBits + 1] = 1
             rest == sticky \/ \E k \in (MantBits + 2)..Len(bits) : bits[k] = 1
             up == guard /\ (rest \/ keep[MantBits] = 1)
         IN  IF ~up THEN [zero |-> FALSE, exp |-> e, mant |-> keep]
             ELSE IF \A k \in 1..MantBits : keep[k] = 1
             THEN [zero |-> FALSE, exp |-> e + 1, mant |-> FloatOne.mant]
             ELSE [zero |-> FALSE, exp |-> e, mant |-> Increment(keep)]

\* The next n quotient bits of r / b (0 <= r < b) and the remainder left: n
\* steps of long division at once, for n <= ChunkBits and b < 2^(31 - ChunkBits)
ChunkBits == 14

Chunk(r, b, n) ==
    [ bits |-> [j \in 1..n |-> (((r * 2^n) \div b) \div 2^(n - j)) % 2],
      rem |-> (r * 2^n) % b ]

\* the next MantBits quotient bits of r / b, and the remainder left
QuotientBits(r, b) ==
    LET c1 == Chunk(r, b, ChunkBits)
        c2 == Chunk(c1.rem, b, ChunkBits)
        c3 == Chunk(c2.rem, b, ChunkBits)
        c4 == Chunk(c3.rem, b, MantBits - 3 * ChunkBits)
    IN  [bits |-> c1.bits \o c2.bits \o c3.bits \o c4.bits, rem |-> c4.rem]

Pow2(k) == 2^k

\* a / b of two ints with 0 <= a <= b and b > 0 (true division)
IntTrueDiv(a, b) ==
    IF a = 0 THEN FloatZero
    ELSE LET k == CHOOSE j \in 0..b : a * Pow2(j) >= b /\ (j = 0 \/ a * Pow2(j - 1) < b)
             quot == QuotientBits(a * Pow2(k) - b, b)
         IN  RoundToFloat(<<1>> \o quot.bits, -k, quot.rem # 0)

\* 1.0 - q for a float 0 <= q <= 1
OneMinus(q) ==
    IF q.zero THEN FloatOne
    ELSE IF q = FloatOne THEN FloatZero
    ELSE LET \* q = mant * 2^-w, so 1.0 - q = (2^w - mant) * 2^-w exactly
             w == MantBits - 1 - q.exp
             m == Zeros(w - MantBits) \o q.mant
             n == Increment([i \in 1..w |-> 1 - m[i]])
             first == CHOOSE i \in 1..w : n[i] = 1 /\ \A k \in 1..(i - 1) : n[k] = 0
         IN  RoundToFloat(SubSeq(n, first, w), -first, FALSE)

\* a <= b for two floats >= 0
FloatLeq(a, b) ==
    \/ a.zero
    \/ /\ ~b.zero
       /\ \/ a.exp < b.exp
          \/ /\ a.exp = b.exp
             /\ \/ a.mant = b.mant
                \/ \E i \in 1..MantBits :
                      /\ a.mant[i] < b.mant[i]
                      /\ \A k \in 1..(i - 1) : a.mant[k] = b.mant[k]

(* ------------------------------------------------------------------ *)
(* test_consistency, lines 164-170: the score of the extracted        *)
(* answers of the probe trials that ended without an error            *)
(* ------------------------------------------------------------------ *)

Range(f) == {f[i] : i \in DOMAIN f}

\* consistency_score were line 169 to divide the number of distinct answers,
\* not that number less one
consistency_score_no_minus_one(answers) ==
    IF Len(answers) < 2 THEN FloatZero
    ELSE LET unique_responses == Range(answers)
         IN  OneMinus(IntTrueDiv(Cardinality(unique_responses), Len(answers)))

\* consistency_score were line 164 to ask for one answer only
consistency_score_one_suffices(answers) ==
    IF Len(answers) < 1 THEN FloatZero
    ELSE LET unique_responses == Range(answers)
         IN  OneMinus(IntTrueDiv(Cardinality(unique_responses) - 1, Len(answers)))

consistency_score(answers) ==
    IF Len(answers) < 2 THEN FloatZero
    ELSE LET unique_responses == Range(answers)
         IN  OneMinus(IntTrueDiv(Cardinality(unique_responses) - 1, Len(answers)))

(* ------------------------------------------------------------------ *)
(* The collaborators: the problems, the strategies, the model server  *)
(* ------------------------------------------------------------------ *)

\* test_queries.TEST_PROBLEMS
TEST_PROBLEMS ==
    << [id |-> 1, problem |-> Chars("Solve for x: 2x + 5 = 15"),
        expected_answer |-> Chars("x = 5"), category |-> "Linear Algebra",
        grade_level |-> "8-9", difficulty |-> "medium"],
       [id |-> 2, problem |-> Chars("What is 15% of 240?"),
        expected_answer |-> Chars("36"), category |-> "Percentage",
        grade_level |-> "6-7", difficulty |-> "easy"] >>

\* prompt_strategies.get_all_strategies(): the strategy_name of each
AllStrategies == <<"Zero-shot", "Few-shot", "Chain-of-Thought", "Self-ask">>

\* the most strategies a checked run is given (get_all_strategies() cut short)
MaxStrategies == 2

\* str(int), for 0 <= n < 10^9
Decimal(n) ==
    LET d == CHOOSE k \in 1..9 : n < 10^k /\ (k = 1 \/ n >= 10^(k - 1))
    IN  [k \in 1..d |-> Chars("0123456789")[((n \div 10^(d - k)) % 10) + 1]]

\* LMStudioClient.get_completion: what it returns for each way the HTTP
\* request can end; it raises nothing itself
get_completion(http) ==
    CASE http.kind = "status" /\ http.code = 200 -> http.content
      [] http.kind = "status" /\ http.code # 200 ->
            Chars("Error: API returned status ") \o Decimal(http.code)
      [] http.kind = "RequestException" ->
            Chars("Error: Connection failed - ") \o http.message
      [] http.kind = "Exception" -> Chars("Error: ") \o http.message

\* what the model answers in a checked run
GoodResponse(problem) ==
    IF problem.id = 1
    THEN Chars("Step 1: 2x = 10\nTherefore x = 5\nAnswer: x = 5")
    ELSE Chars("Answer: 36")

BlankAnswerResponse == Chars("So the result is clear.\nAnswer: ")
FalseFactsResponse ==
    Chars("sin 30") \o <<"U+00AC", "U+221E">> \o Chars(" = 0.9, cos 90")
        \o <<"U+00AC", "U+221E">> \o Chars(" = 1, ") \o <<"U+0153", "U+00C4">>
        \o Chars(" = 4, so infinity = 1")

HttpFailures ==
    { [kind |-> "status", code |-> 500],
      [kind |-> "RequestException", message |-> Chars("Read timed out.")] }

\* one call of test_single_problem ends in one of these ways: the prompt
\* generation raises, the client's get_completion raises (a client other than
\* LMStudioClient), or get_completion returns a text
Raises == { [kind |-> "generate_prompt raises", message |-> Chars("bad problem")],
            [kind |-> "get_completion raises", message |-> Chars("timed out")] }
Returns(texts) == { [kind |-> "returns", text |-> tx] : tx \in texts }

\* the outcomes other than the problem's good response, in a run
RunDeviations ==
    Raises \cup Returns({get_completion(h) : h \in HttpFailures}
                        \cup {BlankAnswerResponse, FalseFactsResponse})

\* the most trials of a run that end otherwise than with the good response
MaxDeviations == 2

\* the texts a directly probed model may return
ProbeTexts ==
    { Chars("Answer: 5"), Chars("x = 5"), Chars("Answer: 36"), Chars("= 7"),
      Chars("No idea"), get_completion([kind |-> "status", code |-> 500]) }

\* the most repetitions of a direct call of test_consistency
MaxRuns == 3

(* ------------------------------------------------------------------ *)
(* The evaluator                                                      *)
(* ------------------------------------------------------------------ *)

VARIABLES
    results,      \* self.results
    strategies,   \* self.strategies (strategy names)
    pc,           \* where the program is
    pi, si,       \* run_full_evaluation: indexes of problem and strategy
    result,       \* run_full_evaluation: result
    num_runs,     \* test_consistency: num_runs
    run_i,        \* test_consistency: trials done so far
    responses,    \* test_consistency: responses
    trials,       \* each call of test_single_problem so far: for which pair, by
                  \* whom ("main" or "probe") and how it ended
    caller,       \* who called test_consistency
    consistency,  \* what test_consistency returned last
    report,       \* how generate_comparison_report ended
    rankings,     \* how get_strategy_rankings ended
    clock,        \* datetime.now(), as a count of its readings
    deviations,   \* trials so far that ended otherwise than with the good response
    in_text, in_expected, out   \* a scorer applied on its own: inputs and output

vars == << results, strategies, pc, pi, si, result, num_runs, run_i, responses,
           trials, caller, consistency, report, rankings, clock, deviations,
           in_text, in_expected, out >>

NoValue == [kind |-> "none"]

\* The scorers are pure: their values on the texts of the checked runs,
\* computed once (lines 126-129 read them here)
ModelTexts ==
    {GoodResponse(TEST_PROBLEMS[k]) : k \in DOMAIN TEST_PROBLEMS}
        \cup {o.text : o \in {d \in RunDeviations : d.kind = "returns"}}
        \cup ProbeTexts

\* lines 131-137: the scores of a response whose final answer is given
Scores(problem, response, final_answer) ==
    [ problem_id |-> problem.id,
      response |-> response,
      extracted_answer |-> final_answer,
      accuracy_score |-> score_accuracy(problem.expected_answer, final_answer),
      reasoning_score |-> score_reasoning_clarity(response),
      hallucination_score |-> score_hallucination(response) ]

ScoredRows ==
    { Scores(TEST_PROBLEMS[k], tx, extract_final_answer(tx))
        : k \in DOMAIN TEST_PROBLEMS, tx \in ModelTexts }

Scored(problem, response) ==
    CHOOSE row \in ScoredRows :
        row.problem_id = problem.id /\ row.response = response

\* the record with the fields of both, those of more taking precedence
With(record, more) ==
    [f \in DOMAIN record \cup DOMAIN more |->
        IF f \in DOMAIN more THEN more[f] ELSE record[f]]

\* test_single_problem were the except branch to score the failed trial 0.0
test_single_problem_scored_failure(problem, strategy, outcome, now) ==
    IF outcome.kind = "returns"
    THEN With(Scored(problem, outcome.text),
              [ problem_text |-> problem.problem,
                expected_answer |-> problem.expected_answer,
                strategy |-> strategy,
                category |-> problem.category,
                difficulty |-> problem.difficulty,
                timestamp |-> now ])
    ELSE [ problem_id |-> problem.id,
           strategy |-> strategy,
           error |-> outcome.message,
           accuracy_score |-> 0,
           timestamp |-> now ]

\* lines 119-154
test_single_problem(problem, strategy, outcome, now) ==
    IF outcome.kind = "returns"
    THEN With(Scored(problem, outcome.text),
              [ problem_text |-> problem.problem,
                expected_answer |-> problem.expected_answer,
                strategy |-> strategy,
                category |-> problem.category,
                difficulty |-> problem.difficulty,
                timestamp |-> now ])
    ELSE [ problem_id |-> problem.id,
           strategy |-> strategy,
           error |-> outcome.message,
           timestamp |-> now ]

IsError(r) == "error" \in DOMAIN r

\* lines 200-240: how generate_comparison_report ends
generate_comparison_report(rs) ==
    IF rs = <<>> THEN [kind |-> "No results to analyze"]
    ELSE LET valid_results == SelectSeq(rs, LAMBDA r : ~IsError(r))
         IN  IF valid_results = <<>> THEN [kind |-> "No valid results found"]
             ELSE [kind |-> "report", detailed_results |-> valid_results]

(* lines 263-286.  The overall scores are floats that differ from the    *)
(* rationals below by rounding errors near 10^-16; two different means   *)
(* of a run are at least 1/(300 * n1 * n2) apart, n1 and n2 being the    *)
(* numbers of records averaged, so rounding never reorders them.  The   *)
(* scores are kept as exact rationals, in units of 1/OverallUnit, and    *)
(* the order of equal means, which rests on rounding and on the sort of  *)
(* pandas, is left open.                                                 *)

\* lines 273-276: the weights, in tenths
AccuracyWeight == 4
ReasoningWeight == 3
HallucinationWeight == 2
ConsistencyWeight == 1

\* 10 (tenths) * 5 * 3 (the divisors of lines 274-275) * 2 (consistency
\* scores of a run are halves)
OverallUnit == 300

\* twice a consistency score of a run, which is 0.0, 0.5 or 1.0
Twice(c) ==
    CASE c = FloatZero -> 0
      [] c = IntTrueDiv(1, 2) -> 1
      [] c = FloatOne -> 2

\* overall_score were the weights of accuracy and reasoning exchanged
overall_score_weights_exchanged(r) ==
    ReasoningWeight * r.accuracy_score * (OverallUnit \div 10)
      + AccuracyWeight * r.reasoning_score * (OverallUnit \div 50)
      + HallucinationWeight * (3 - r.hallucination_score) * (OverallUnit \div 30)
      + ConsistencyWeight * Twice(r.consistency_score) * (OverallUnit \div 20)

\* lines 272-277: df['overall_score'] of one row, times OverallUnit
\* (1 - h/3 is (3 - h)/3)
overall_score(r) ==
    AccuracyWeight * r.accuracy_score * (OverallUnit \div 10)
      + ReasoningWeight * r.reasoning_score * (OverallUnit \div 50)
      + HallucinationWeight * (3 - r.hallucination_score) * (OverallUnit \div 30)
      + ConsistencyWeight * Twice(r.consistency_score) * (OverallUnit \div 20)

RECURSIVE SumOverall(_)
SumOverall(rows) ==
    IF rows = <<>> THEN 0 ELSE overall_score(Head(rows)) + SumOverall(Tail(rows))

\* line 279: groupby('strategy')['overall_score'].mean() for one strategy,
\* as the sum and the count of its rows
MeanOverall(rows, name) ==
    [ sum |-> SumOverall(SelectSeq(rows, LAMBDA r : r.strategy = name)),
      count |-> Len(SelectSeq(rows, LAMBDA r : r.strategy = name)) ]

\* mean a >= mean b
MeanGeq(a, b) == a.sum * b.count >= b.sum * a.count

\* line 279: sort_values(ascending=False): the orders of the index it may give
SortedDescending(score) ==
    {o \in [1..Cardinality(DOMAIN score) -> DOMAIN score] :
        /\ Range(o) = DOMAIN score
        /\ \A i \in DOMAIN o, j \in DOMAIN o :
              i < j => MeanGeq(score[o[i]], score[o[j]])}

\* the Series of line 279 before it is sorted
MeansByStrategy(rows) ==
    [name \in {rows[k].strategy : k \in DOMAIN rows} |-> MeanOverall(rows, name)]

\* lines 263-286: the ways get_strategy_rankings may end.  A DataFrame made
\* of an empty list has no columns, and df['accuracy_score'] raises KeyError.
get_strategy_rankings(rs) ==
    IF rs = <<>> THEN {[kind |-> "None"]}
    ELSE IF SelectSeq(rs, LAMBDA r : ~IsError(r)) = <<>>
    THEN {[kind |-> "KeyError"]}
    ELSE {[kind |-> "rankings", order |-> o,
           score |-> MeansByStrategy(SelectSeq(rs, LAMBDA r : ~IsError(r)))]
            : o \in SortedDescending(
                      MeansByStrategy(SelectSeq(rs, LAMBDA r : ~IsError(r))))}

\* what one call of test_single_problem may meet
Outcomes(problem) ==
    IF caller = "direct" THEN Raises \cup Returns(ProbeTexts)
    ELSE Returns({GoodResponse(problem)})
            \cup (IF deviations < MaxDeviations THEN RunDeviations ELSE {})

Deviates(problem, outcome) ==
    IF caller # "direct" /\ outcome \in RunDeviations THEN 1 ELSE 0

TrialsAfter(phase, outcome) ==
    Append(trials, [pi |-> pi, si |-> si, phase |-> phase, ended |-> outcome.kind])

scorer_vars == << in_text, in_expected, out >>
report_vars == << report, rankings >>
probe_vars == << num_runs, run_i, responses, consistency >>

\* main.py 162-172: the evaluator as run_evaluation builds it, with all the
\* strategies or with the one asked for
StrategyLists ==
    {SubSeq(AllStrategies, 1, n) : n \in 1..Min(MaxStrategies, Len(AllStrategies))}
        \cup {<<AllStrategies[k]>> : k \in 1..Len(AllStrategies)}

Init ==
    /\ results = <<>>
    /\ strategies \in StrategyLists
    /\ pc = "idle"
    /\ pi = 0 /\ si = 0
    /\ result = NoValue
    /\ num_runs = 0 /\ run_i = 0 /\ responses = <<>>
    /\ trials = <<>>
    /\ caller = "run_full_evaluation"
    /\ consistency = NoValue
    /\ report = NoValue /\ rankings = NoValue
    /\ clock = 0
    /\ deviations = 0
    /\ in_text = <<>> /\ in_expected = <<>> /\ out = NoValue

\* lines 172-180: run_full_evaluation is entered
StartRun ==
    /\ pc = "idle"
    /\ pi' = 1 /\ si' = 1
    /\ pc' = IF Len(TEST_PROBLEMS) = 0 \/ Len(strategies) = 0
             THEN "completed" ELSE "trial"
    /\ UNCHANGED << results, strategies, result, trials, caller, clock, deviations >>
    /\ UNCHANGED << probe_vars, report_vars, scorer_vars >>

\* MainTrial were line 192 to ask for three repetitions
MainTrial_ThreeProbes ==
    /\ pc = "trial"
    /\ \E outcome \in Outcomes(TEST_PROBLEMS[pi]) :
          /\ result' = test_single_problem(TEST_PROBLEMS[pi], strategies[si],
                                           outcome, clock)
          /\ trials' = TrialsAfter("main", outcome)
          /\ deviations' = deviations + Deviates(TEST_PROBLEMS[pi], outcome)
    /\ clock' = clock + 1
    /\ IF IsError(result')
       THEN pc' = "append" /\ UNCHANGED << num_runs, run_i, responses >>
       ELSE pc' = "probe" /\ num_runs' = 3 /\ run_i' = 0 /\ responses' = <<>>
    /\ UNCHANGED << results, strategies, pi, si, caller, consistency >>
    /\ UNCHANGED << report_vars, scorer_vars >>

\* lines 188-192: the trial of the pair, and the call of test_consistency when
\* it left no error
MainTrial ==
    /\ pc = "trial"
    /\ \E outcome \in Outcomes(TEST_PROBLEMS[pi]) :
          /\ result' = test_single_problem(TEST_PROBLEMS[pi], strategies[si],
                                           outcome, clock)
          /\ trials' = TrialsAfter("main", outcome)
          /\ deviations' = deviations + Deviates(TEST_PROBLEMS[pi], outcome)
    /\ clock' = clock + 1
    /\ IF IsError(result')
       THEN pc' = "append" /\ UNCHANGED << num_runs, run_i, responses >>
       ELSE pc' = "probe" /\ num_runs' = 2 /\ run_i' = 0 /\ responses' = <<>>
    /\ UNCHANGED << results, strategies, pi, si, caller, consistency >>
    /\ UNCHANGED << report_vars, scorer_vars >>

\* lines 161-162: what a probe adds to the responses
Probed(probe) == IF ~IsError(probe) THEN << probe.extracted_answer >> ELSE << >>

\* lines 159-162: one turn of the loop of test_consistency
ProbeTrial ==
    /\ pc = "probe"
    /\ run_i < num_runs
    /\ \E outcome \in Outcomes(TEST_PROBLEMS[pi]) :
          /\ responses' = responses \o Probed(test_single_problem(
                                TEST_PROBLEMS[pi], strategies[si], outcome, clock))
          /\ trials' = TrialsAfter("probe", outcome)
          /\ deviations' = deviations + Deviates(TEST_PROBLEMS[pi], outcome)
    /\ run_i' = run_i + 1
    /\ clock' = clock + 1
    /\ UNCHANGED << results, strategies, pc, pi, si, result, num_runs, caller,
                    consistency >>
    /\ UNCHANGED << report_vars, scorer_vars >>

\* lines 164-170 and 193: test_consistency returns; run_full_evaluation puts
\* the score in the result
ReturnConsistency ==
    /\ pc = "probe"
    /\ run_i = num_runs
    /\ consistency' = consistency_score(responses)
    /\ IF caller = "direct"
       THEN pc' = "returned" /\ UNCHANGED result
       ELSE /\ pc' = "append"
            /\ result' = [f \in DOMAIN result \cup {"consistency_score"} |->
                            IF f = "consistency_score" THEN consistency'
                            ELSE result[f]]
    /\ UNCHANGED << results, strategies, pi, si, num_runs, run_i, responses, trials,
                    caller, clock, deviations >>
    /\ UNCHANGED << report_vars, scorer_vars >>

\* AppendResult were a failed trial to be tried again in place of recorded
AppendResult_RetriesFailure ==
    /\ pc = "append"
    /\ IF IsError(result)
       THEN pc' = "trial" /\ UNCHANGED << results, pi, si >>
       ELSE /\ results' = Append(results, result)
            /\ IF si < Len(strategies) THEN pc' = "trial" /\ si' = si + 1 /\ pi' = pi
               ELSE IF pi < Len(TEST_PROBLEMS)
                    THEN pc' = "trial" /\ si' = 1 /\ pi' = pi + 1
                    ELSE pc' = "completed" /\ UNCHANGED << pi, si >>
    /\ UNCHANGED << strategies, result, trials, caller, clock, deviations >>
    /\ UNCHANGED << probe_vars, report_vars, scorer_vars >>

\* AppendResult were a failed trial to leave no record
AppendResult_DropsFailures ==
    /\ pc = "append"
    /\ results' = IF IsError(result) THEN results ELSE Append(results, result)
    /\ IF si < Len(strategies) THEN pc' = "trial" /\ si' = si + 1 /\ pi' = pi
       ELSE IF pi < Len(TEST_PROBLEMS) THEN pc' = "trial" /\ si' = 1 /\ pi' = pi + 1
       ELSE pc' = "completed" /\ UNCHANGED << pi, si >>
    /\ UNCHANGED << strategies, result, trials, caller, clock, deviations >>
    /\ UNCHANGED << probe_vars, report_vars, scorer_vars >>

\* AppendResult were the strategies the outer loop and the problems the inner
AppendResult_StrategiesOuter ==
    /\ pc = "append"
    /\ results' = Append(results, result)
    /\ IF pi < Len(TEST_PROBLEMS) THEN pc' = "trial" /\ pi' = pi + 1 /\ si' = si
       ELSE IF si < Len(strategies) THEN pc' = "trial" /\ pi' = 1 /\ si' = si + 1
       ELSE pc' = "completed" /\ UNCHANGED << pi, si >>
    /\ UNCHANGED << strategies, result, trials, caller, clock, deviations >>
    /\ UNCHANGED << probe_vars, report_vars, scorer_vars >>

\* lines 195-198 and the two loop headers: the result is appended and the
\* next pair, if any, is taken
AppendResult ==
    /\ pc = "append"
    /\ results' = Append(results, result)
    /\ IF si < Len(strategies) THEN pc' = "trial" /\ si' = si + 1 /\ pi' = pi
       ELSE IF pi < Len(TEST_PROBLEMS) THEN pc' = "trial" /\ si' = 1 /\ pi' = pi + 1
       ELSE pc' = "completed" /\ UNCHANGED << pi, si >>
    /\ UNCHANGED << strategies, result, trials, caller, clock, deviations >>
    /\ UNCHANGED << probe_vars, report_vars, scorer_vars >>

\* main.py 179
Report ==
    /\ pc = "completed"
    /\ report' = generate_comparison_report(results)
    /\ pc' = "reported"
    /\ UNCHANGED << results, strategies, pi, si, result, trials, caller, clock,
                    deviations, rankings >>
    /\ UNCHANGED << probe_vars, scorer_vars >>

\* main.py 182: an exception of get_strategy_rankings leaves run_evaluation
Rankings ==
    /\ pc = "reported"
    /\ rankings' \in get_strategy_rankings(results)
    /\ pc' = IF rankings'.kind = "KeyError" THEN "raised" ELSE "done"
    /\ UNCHANGED << results, strategies, pi, si, result, trials, caller, clock,
                    deviations, report >>
    /\ UNCHANGED << probe_vars, scorer_vars >>

Next ==
    \/ StartRun
    \/ MainTrial
    \/ ProbeTrial
    \/ ReturnConsistency
    \/ AppendResult
    \/ Report
    \/ Rankings

Spec == Init /\ [][Next]_vars

(* ------------------------------------------------------------------ *)
(* test_consistency called on its own, with any num_runs              *)
(* ------------------------------------------------------------------ *)

InitProbe ==
    /\ results = <<>>
    /\ strategies = AllStrategies
    /\ pc = "direct"
    /\ pi = 0 /\ si = 0
    /\ result = NoValue
    /\ num_runs = 0 /\ run_i = 0 /\ responses = <<>>
    /\ trials = <<>>
    /\ caller = "direct"
    /\ consistency = NoValue
    /\ report = NoValue /\ rankings = NoValue
    /\ clock = 0
    /\ deviations = 0
    /\ in_text = <<>> /\ in_expected = <<>> /\ out = NoValue

\* line 156-158: test_consistency(problem, strategy, num_runs)
CallTestConsistency ==
    /\ pc = "direct"
    /\ pi' \in DOMAIN TEST_PROBLEMS
    /\ si' = 1
    /\ num_runs' \in 0..MaxRuns
    /\ run_i' = 0
    /\ responses' = <<>>
    /\ pc' = "probe"
    /\ UNCHANGED << results, strategies, result, trials, caller, consistency, clock,
                    deviations >>
    /\ UNCHANGED << report_vars, scorer_vars >>

NextProbe ==
    \/ CallTestConsistency
    \/ ProbeTrial
    \/ ReturnConsistency

SpecProbe == InitProbe /\ [][NextProbe]_vars

(* ------------------------------------------------------------------ *)
(* The extractor and the scorers applied to texts made of fragments   *)
(* ------------------------------------------------------------------ *)

\* the most fragments of a text
MaxFragments == 3

RECURSIVE Flatten(_)
Flatten(ss) == IF ss = <<>> THEN <<>> ELSE Head(ss) \o Flatten(Tail(ss))

TextsOf(fragments) ==
    {Flatten(fs) : fs \in UNION {[1..n -> fragments] : n \in 0..MaxFragments}}

ExtractFragments ==
    { Chars("Answer:"), Chars("result:"), Chars(" "), Chars("\n"), Chars("5"),
      Chars("x ="), Chars("cm"), Chars("!") }

ScoreFragments ==
    { Chars("sin 30") \o <<"U+00AC", "U+221E">> \o Chars(" = 0.9"),
      Chars("cos90") \o <<"U+00AC">> \o Chars("=1"),
      Chars("sin30") \o <<"U+00AC">> \o Chars("=0.5"),
      <<"U+0153", "U+00C4">> \o Chars(" = 4."),
      Chars("infinity ="), Chars("always never"), Chars(" "), Chars("\n"),
      Chars("Step 1"), Chars("So the formula") }

InitText(fragments) ==
    /\ results = <<>>
    /\ strategies = AllStrategies
    /\ pc = "text"
    /\ pi = 0 /\ si = 0
    /\ result = NoValue
    /\ num_runs = 0 /\ run_i = 0 /\ responses = <<>>
    /\ trials = <<>>
    /\ caller = "direct"
    /\ consistency = NoValue
    /\ report = NoValue /\ rankings = NoValue
    /\ clock = 0
    /\ deviations = 0
    /\ in_text \in TextsOf(fragments)
    /\ in_expected \in {TEST_PROBLEMS[k].expected_answer : k \in DOMAIN TEST_PROBLEMS}
    /\ out = NoValue

run_vars == << results, strategies, pi, si, result, trials, caller, clock, deviations >>

\* line 126
ExtractFinalAnswer ==
    /\ pc = "text"
    /\ out' = [op |-> "extract_final_answer", value |-> extract_final_answer(in_text)]
    /\ pc' = "extracted"
    /\ UNCHANGED << in_text, in_expected >>
    /\ UNCHANGED << run_vars, probe_vars, report_vars >>

\* line 127
ScoreAccuracy ==
    /\ pc = "extracted"
    /\ out' = [op |-> "score_accuracy", actual |-> out.value,
               value |-> score_accuracy(in_expected, out.value)]
    /\ pc' = "scored"
    /\ UNCHANGED << in_text, in_expected >>
    /\ UNCHANGED << run_vars, probe_vars, report_vars >>

\* line 128
ScoreReasoningClarity ==
    /\ pc = "text"
    /\ out' = [op |-> "score_reasoning_clarity",
               value |-> score_reasoning_clarity(in_text)]
    /\ pc' = "scored"
    /\ UNCHANGED << in_text, in_expected >>
    /\ UNCHANGED << run_vars, probe_vars, report_vars >>

\* line 129
ScoreHallucination ==
    /\ pc = "text"
    /\ out' = [op |-> "score_hallucination", value |-> score_hallucination(in_text)]
    /\ pc' = "scored"
    /\ UNCHANGED << in_text, in_expected >>
    /\ UNCHANGED << run_vars, probe_vars, report_vars >>

InitExtract == InitText(ExtractFragments)
NextExtract == ExtractFinalAnswer \/ ScoreAccuracy
SpecExtract == InitExtract /\ [][NextExtract]_vars

InitScore == InitText(ScoreFragments) /\ in_expected = TEST_PROBLEMS[1].expected_answer
NextScore == ScoreReasoningClarity \/ ScoreHallucination
SpecScore == InitScore /\ [][NextScore]_vars

(* ------------------------------------------------------------------ *)
(* Properties of a run (Spec)                                         *)
(* ------------------------------------------------------------------ *)

\* the trials of a phase, in the order of their calls: "main" for those of
\* run_full_evaluation, "probe" for those of test_consistency
TrialsOf(phase) == SelectSeq(trials, LAMBDA t : t.phase = phase)

\* run_full_evaluation has returned
RunEnded == pc \in {"completed", "reported", "done", "raised"}

Failures == {i \in DOMAIN results : IsError(results[i])}
Successes == DOMAIN results \ Failures

\* C1: a run of N = |problems| x |strategies| trials, of which any K fail
\* because the prompt generation or the model call raises, does not stop at a
\* failed trial and ends with exactly N records: the record of a trial carries
\* an error field if and only if the trial failed, so K records are failure
\* records and N - K are success records.
C1_PartialFailureTolerance ==
    /\ \A i \in DOMAIN results :
          /\ i <= Len(TrialsOf("main"))
          /\ IsError(results[i]) <=> TrialsOf("main")[i].ended # "returns"
    /\ RunEnded =>
          /\ Len(results) = Len(TEST_PROBLEMS) * Len(strategies)
          /\ Len(TrialsOf("main")) = Len(results)

\* a run of four trials has ended; one trial failed in the prompt generation,
\* one in the model call, the others succeeded
C1_Witness ==
    /\ pc = "completed"
    /\ Len(results) = 4
    /\ \E i \in Failures : results[i].error = Chars("bad problem")
    /\ \E i \in Failures : results[i].error = Chars("timed out")
    /\ Cardinality(Successes) = 2

\* main.py 69-75: the strings get_completion returns in place of raising
ErrorShaped(text) == MatchLit(text, 1, Chars("Error:"))

\* C2: a trial whose model call returns an error-shaped string in place of
\* raising leaves a failure record: no success record holds such a string as
\* its response.
C2_ErrorStringIsFailure ==
    \A i \in Successes : ~ErrorShaped(results[i].response)

\* C3: once a run in which every trial failed has ended, the report is "no
\* valid results" and the rankings step does not raise.
C3_AllFailedRunReportsNoValidResults ==
    (results # <<>> /\ Successes = {} /\ pc \in {"reported", "done", "raised"}) =>
        /\ report = [kind |-> "No valid results found"]
        /\ pc # "raised"

\* the records are those of the first trials, problems outer, strategies inner
InTrialOrder ==
    \A i \in DOMAIN results :
        /\ results[i].problem_id =
              TEST_PROBLEMS[((i - 1) \div Len(strategies)) + 1].id
        /\ results[i].strategy = strategies[((i - 1) % Len(strategies)) + 1]

IsPrefix(a, b) == Len(a) <= Len(b) /\ SubSeq(b, 1, Len(a)) = a

\* C4: with S strategies the record at 0-based position i is that of problem
\* i div S and strategy i mod S, failed or not, and every step of a run leaves
\* the earlier records where they were: the sequence only grows at its end.
C4_RecordsInTrialOrder ==
    [][InTrialOrder' /\ IsPrefix(results, results')]_vars

\* a run of two problems and two strategies has ended, its second trial
\* failed and its third succeeded
C4_Witness ==
    /\ pc = "completed"
    /\ Len(strategies) = 2
    /\ Len(results) = 4
    /\ IsError(results[2])
    /\ ~IsError(results[3])

SamePair(a, b) == a.pi = b.pi /\ a.si = b.si
SuccessfulMain(t) == t.phase = "main" /\ t.ended = "returns"

\* the j-th trial of the log is called where lines 187-195 call it: a probe
\* is the first or the second trial after the successful main trial of its
\* pair; a main trial is the first trial, or follows a failed main trial or
\* the second probe of the pair before
CalledInPlace(j) ==
    IF trials[j].phase = "probe"
    THEN \/ /\ j > 1
            /\ SuccessfulMain(trials[j - 1])
            /\ SamePair(trials[j], trials[j - 1])
         \/ /\ j > 2
            /\ trials[j - 1].phase = "probe"
            /\ SuccessfulMain(trials[j - 2])
            /\ SamePair(trials[j], trials[j - 2])
    ELSE \/ j = 1
         \/ trials[j - 1].phase = "main" /\ trials[j - 1].ended # "returns"
         \/ j > 2 /\ trials[j - 1].phase = "probe" /\ trials[j - 2].phase = "probe"

\* the last two trials are the probes of the pair at hand
ProbedTwice ==
    /\ Len(trials) > 2
    /\ \A j \in {Len(trials) - 1, Len(trials)} :
          trials[j].phase = "probe" /\ trials[j].pi = pi /\ trials[j].si = si

\* C5: the probe runs for a pair if and only if the pair's main trial left a
\* success record, with exactly 2 repetitions of the same pair, after the main
\* trial, before the record is appended and before the next pair's trial; so a
\* record has a consistency_score if and only if it is a success record.
C5_ProbeIffSuccess ==
    /\ \A j \in DOMAIN trials : CalledInPlace(j)
    /\ \A i \in DOMAIN results :
          IsError(results[i]) <=> "consistency_score" \notin DOMAIN results[i]
    /\ Len(results) = Len(TrialsOf("main"))
                        - (IF pc \in {"probe", "append"} THEN 1 ELSE 0)
    /\ pc = "probe" => ~IsError(result) /\ num_runs = 2
    /\ pc = "append" =>
          IF IsError(result)
          THEN ~SuccessfulMain(trials[Len(trials)])
                  /\ trials[Len(trials)].phase = "main"
          ELSE ProbedTwice /\ "consistency_score" \in DOMAIN result
    /\ (pc = "trial" \/ RunEnded) /\ trials # <<>> =>
          \/ trials[Len(trials)].phase = "main" /\ ~SuccessfulMain(trials[Len(trials)])
          \/ /\ Len(trials) > 2
             /\ trials[Len(trials)].phase = "probe"
             /\ trials[Len(trials) - 1].phase = "probe"

\* a run has ended with a success record and a failure record, and a probe
\* of it failed
C5_Witness ==
    /\ pc = "completed"
    /\ Successes # {}
    /\ Failures # {}
    /\ \E j \in DOMAIN trials :
          trials[j].phase = "probe" /\ trials[j].ended # "returns"

\* the scores of a success record are in their ranges (accuracy 0.0 or 1.0;
\* a float of the model is never negative)
InRange(r) ==
    /\ r.accuracy_score \in {0, 1}
    /\ r.reasoning_score \in 1..5
    /\ r.hallucination_score \in 0..3
    /\ "consistency_score" \in DOMAIN r =>
          /\ FloatLeq(FloatZero, r.consistency_score)
          /\ FloatLeq(r.consistency_score, FloatOne)

\* C8: in every state of a run every success record, appended or about to
\* be, has accuracy_score 0.0 or 1.0, reasoning_score in 1..5,
\* hallucination_score in 0..3 and consistency_score in [0, 1].
C8_ScoresInRange ==
    /\ \A i \in Successes :
          InRange(results[i]) /\ "consistency_score" \in DOMAIN results[i]
    /\ pc \in {"probe", "append"} /\ ~IsError(result) => InRange(result)

\* a success record holds the highest hallucination score and a consistency
\* score below 1.0
C8_Witness ==
    \E i \in Successes :
        /\ results[i].hallucination_score = 3
        /\ results[i].consistency_score # FloatOne
        /\ results[i].response = FalseFactsResponse

(* ------------------------------------------------------------------ *)
(* Properties of test_consistency called alone (SpecProbe)            *)
(* ------------------------------------------------------------------ *)

\* the probes of the call that ended without an error
SuccessfulProbes ==
    {j \in DOMAIN trials : trials[j].phase = "probe" /\ trials[j].ended = "returns"}

AllProbesSucceeded == Len(responses) = num_runs

\* the number of distinct extracted answers, as raw strings
DistinctAnswers == Cardinality(Range(responses))

IsPowerOfTwo(n) == \E k \in 0..n : 2^k = n

FloatLess(a, b) == FloatLeq(a, b) /\ a # b

\* C6 as stated: for run_count >= 2, identical answers of run_count
\* successful probes give exactly 1.0 and pairwise distinct answers give
\* exactly 1/run_count; in general the result is
\* 1 - (distinct_answer_count - 1) / successful_trial_count.
C6_ExactlyOneOverRunCount ==
    (pc = "returned" /\ num_runs >= 2 /\ Len(responses) >= 2) =>
        /\ consistency = OneMinus(IntTrueDiv(DistinctAnswers - 1, Len(responses)))
        /\ DistinctAnswers = 1 => consistency = FloatOne
        /\ (AllProbesSucceeded /\ DistinctAnswers = num_runs) =>
              consistency = IntTrueDiv(1, num_runs)

\* C6, amended: for run_count >= 2 and at least 2 successful probes the
\* result is the float 1.0 - (distinct_answer_count - 1) /
\* successful_trial_count; it is exactly 1.0 when the answers are identical;
\* when run_count successful probes give pairwise distinct answers it is
\* exactly 1/run_count if run_count is a power of two, and otherwise a float
\* strictly between 1/(run_count + 1) and 1/(run_count - 1).
C6_ConsistencyOfAnswers ==
    (pc = "returned" /\ num_runs >= 2 /\ Len(responses) >= 2) =>
        /\ consistency = OneMinus(IntTrueDiv(DistinctAnswers - 1, Len(responses)))
        /\ DistinctAnswers = 1 => consistency = FloatOne
        /\ (AllProbesSucceeded /\ DistinctAnswers = num_runs) =>
              /\ IsPowerOfTwo(num_runs) => consistency = IntTrueDiv(1, num_runs)
              /\ FloatLess(IntTrueDiv(1, num_runs + 1), consistency)
              /\ FloatLess(consistency, IntTrueDiv(1, num_runs - 1))

\* three probes succeeded with three distinct answers, and the result is not
\* the float 1/3
C6_Witness ==
    /\ pc = "returned"
    /\ num_runs = 3
    /\ AllProbesSucceeded
    /\ DistinctAnswers = 3
    /\ consistency # IntTrueDiv(1, 3)

\* C7: when fewer than 2 of the run_count probes end without an error,
\* test_consistency returns 0.0; the failed probes count neither as answers
\* nor as successful trials.
C7_FewSuccessesGiveZero ==
    pc = "returned" =>
        /\ Len(TrialsOf("probe")) = num_runs
        /\ Len(responses) = Cardinality(SuccessfulProbes)
        /\ Cardinality(SuccessfulProbes) < 2 => consistency = FloatZero
        /\ Cardinality(SuccessfulProbes) >= 2 =>
              consistency = OneMinus(IntTrueDiv(DistinctAnswers - 1,
                                                Cardinality(SuccessfulProbes)))

\* of three probes one succeeded, and the result is 0.0
C7_Witness ==
    /\ pc = "returned"
    /\ num_runs = 3
    /\ Cardinality(SuccessfulProbes) = 1
    /\ consistency = FloatZero

(* ------------------------------------------------------------------ *)
(* Properties of the extractor and the scorers (SpecExtract,          *)
(* SpecScore)                                                         *)
(* ------------------------------------------------------------------ *)

\* C9: for any response, the empty one and one whose "Answer:" label is
\* followed by whitespace only included, extract_final_answer returns a
\* non-empty string.
C9_ExtractionNeverEmpty ==
    pc = "extracted" => out.value # <<>>

\* the patterns of incorrect_facts that match the text
FiredFacts ==
    {n \in 1..Len(incorrect_facts(in_text)) : incorrect_facts(in_text)[n]}

HallucinationScored == pc = "scored" /\ out.op = "score_hallucination"

\* C10 as stated: each of the three checks adds at most 1, so the score is
\* the number of checks that fire, and a response that fires the false-fact
\* check alone scores 1.
C10_EachCheckAddsAtMostOne ==
    HallucinationScored =>
        out.value = Bonus(FiredFacts # {})
                      + Bonus(impossible_statement(in_text))
                      + Bonus(contradictory_statement(in_text))

\* C10, amended: the false-fact check adds 1 for each of its three patterns
\* that matches, the impossible-statement check and the contradiction check
\* add at most 1 each, and the sum is capped at 3; a response that fires the
\* false-fact check alone scores the number of its patterns that match.
C10_ScorePerFalseFact ==
    HallucinationScored =>
        /\ out.value = Min(Cardinality(FiredFacts)
                             + Bonus(impossible_statement(in_text))
                             + Bonus(contradictory_statement(in_text)), 3)
        /\ out.value \in 0..3
        /\ (~impossible_statement(in_text) /\ ~contradictory_statement(in_text)) =>
              out.value = Cardinality(FiredFacts)

\* a response that fires the false-fact check alone, through two patterns,
\* has been scored 2
C10_Witness ==
    /\ HallucinationScored
    /\ Cardinality(FiredFacts) = 2
    /\ ~impossible_statement(in_text)
    /\ ~contradictory_statement(in_text)
    /\ out.value = 2

(* ------------------------------------------------------------------ *)
(* Shapes of the records, and no second attempt (Spec)                *)
(* ------------------------------------------------------------------ *)

\* lines 148-153: the keys of a failure record
FailureFields == {"problem_id", "strategy", "error", "timestamp"}

\* lines 131-144 and 193: the keys of a success record of a run
SuccessFields ==
    {"problem_id", "problem_text", "expected_answer", "strategy", "response",
     "extracted_answer", "accuracy_score", "reasoning_score",
     "hallucination_score", "category", "difficulty", "timestamp",
     "consistency_score"}

\* lines 180-183: the pair after that of trial t, in the order of the loops
NextPair(t) ==
    IF t.si < Len(strategies) THEN [pi |-> t.pi, si |-> t.si + 1]
    ELSE [pi |-> t.pi + 1, si |-> 1]

FailedMain(t) == t.phase = "main" /\ t.ended # "returns"

\* C11: every record has exactly one of two shapes: a failure record has an
\* error field and no accuracy, reasoning, hallucination or consistency
\* score; a success record has the three score fields and no error field.  A
\* trial that raised leaves the failure shape, and the run goes on with the
\* next combination.
C11_TwoRecordShapes ==
    /\ \A i \in DOMAIN results :
          /\ DOMAIN results[i] \in {FailureFields, SuccessFields}
          /\ FailedMain(TrialsOf("main")[i]) => DOMAIN results[i] = FailureFields
    /\ \A j \in DOMAIN trials :
          (FailedMain(trials[j]) /\ j < Len(trials)) =>
              /\ trials[j + 1].phase = "main"
              /\ SamePair(trials[j + 1], NextPair(trials[j]))

\* the model call of a trial timed out, its record has the failure shape and
\* the record of the next combination, a success record, follows it
C11_Witness ==
    \E i \in DOMAIN results :
        /\ i < Len(results)
        /\ DOMAIN results[i] = FailureFields
        /\ results[i].error = Chars("timed out")
        /\ DOMAIN results[i + 1] = SuccessFields

\* the trials of the pair of trial t, as positions of the log
TrialsOfPair(t) == {k \in DOMAIN trials : SamePair(trials[k], t)}

\* line 123: the trials of the pair of t that called the model
ModelCallsOfPair(t) ==
    {k \in TrialsOfPair(t) : trials[k].ended # "generate_prompt raises"}

\* the records of the pair of trial t, as positions of the record sequence
RecordsOfPair(t) ==
    {i \in DOMAIN results :
        /\ results[i].problem_id = TEST_PROBLEMS[t.pi].id
        /\ results[i].strategy = strategies[t.si]}

\* C12: a pair whose main trial failed is tried once: the model is called at
\* most once for it, exactly one record, a failure record, is appended for
\* it, and the next call is the main trial of the next pair.
C12_NoRetries ==
    \A j \in DOMAIN trials :
        FailedMain(trials[j]) =>
            /\ TrialsOfPair(trials[j]) = {j}
            /\ Cardinality(ModelCallsOfPair(trials[j])) <= 1
            /\ IF j = Len(trials) /\ pc = "append"
               THEN RecordsOfPair(trials[j]) = {}
               ELSE /\ Cardinality(RecordsOfPair(trials[j])) = 1
                    /\ RecordsOfPair(trials[j]) \subseteq Failures
            /\ j < Len(trials) =>
                  /\ trials[j + 1].phase = "main"
                  /\ SamePair(trials[j + 1], NextPair(trials[j]))

\* a run has ended in which a model call raised and, for a later pair, the
\* prompt generation raised
C12_Witness ==
    /\ pc = "completed"
    /\ \E j \in DOMAIN trials, k \in DOMAIN trials :
          /\ j < k
          /\ trials[j].phase = "main" /\ trials[j].ended = "get_completion raises"
          /\ trials[k].phase = "main" /\ trials[k].ended = "generate_prompt raises"
          /\ Cardinality(ModelCallsOfPair(trials[j])) = 1
          /\ ModelCallsOfPair(trials[k]) = {}

(* ------------------------------------------------------------------ *)
(* score_accuracy applied to any two strings (SpecAccuracy)           *)
(* ------------------------------------------------------------------ *)

AccuracyFragments ==
    { Chars("The value is "), Chars("x = 5"), Chars(" cm"), Chars("Answer: "),
      Chars("36"), Chars("3"), Chars("_"), Chars("6") }

ExpectedAnswers ==
    {TEST_PROBLEMS[k].expected_answer : k \in DOMAIN TEST_PROBLEMS}
        \cup {Chars("x = 36")}

InitAccuracy ==
    /\ results = <<>>
    /\ strategies = AllStrategies
    /\ pc = "text"
    /\ pi = 0 /\ si = 0
    /\ result = NoValue
    /\ num_runs = 0 /\ run_i = 0 /\ responses = <<>>
    /\ trials = <<>>
    /\ caller = "direct"
    /\ consistency = NoValue
    /\ report = NoValue /\ rankings = NoValue
    /\ clock = 0
    /\ deviations = 0
    /\ in_text \in TextsOf(AccuracyFragments)
    /\ in_expected \in ExpectedAnswers
    /\ out = NoValue

\* lines 48-69: score_accuracy(expected, actual), actual being in_text
ScoreAccuracyOfText ==
    /\ pc = "text"
    /\ out' = [op |-> "score_accuracy", actual |-> in_text,
               value |-> score_accuracy(in_expected, in_text)]
    /\ pc' = "scored"
    /\ UNCHANGED << in_text, in_expected >>
    /\ UNCHANGED << run_vars, probe_vars, report_vars >>

NextAccuracy == ScoreAccuracyOfText
SpecAccuracy == InitAccuracy /\ [][NextAccuracy]_vars

\* 1.0 if either string is a substring of the other, else 1.0 if both hold a
\* run of digits and points and their first runs are the same text, else 0.0
LooseMatch(e, a) ==
    IF IsSubstring(e, a) \/ IsSubstring(a, e) THEN 1
    ELSE IF FirstNumber(e) # <<>> /\ FirstNumber(e) = FirstNumber(a) THEN 1
    ELSE 0

AccuracyScored == pc = "scored" /\ out.op = "score_accuracy"

\* C13 as stated: score_accuracy is the loose match of the two strings
\* normalized by lower-casing and removing every character other than
\* alphanumerics, ".", "/", "=" and whitespace.
C13_LooseMatchOfAlphanumerics ==
    AccuracyScored =>
        LET alphanumerics == Letter \cup Digit
            kept(c) == c \in alphanumerics \cup {".", "/", "="} \cup Space
        IN  out.value = LooseMatch(SelectSeq(Lower(in_expected), kept),
                                   SelectSeq(Lower(out.actual), kept))

\* C13, amended: the normalization removes every character other than word
\* characters (alphanumerics and the underscore), ".", "/", "=" and
\* whitespace; score_accuracy is the loose match of the strings so
\* normalized.  Expected "x = 5" against "The value is x = 5 cm" and expected
\* "36" against "Answer: 36" score 1.0.
C13_LooseMatchOfWordCharacters ==
    AccuracyScored =>
        /\ out.value = LooseMatch(SelectSeq(Lower(in_expected), KeptByClean),
                                  SelectSeq(Lower(out.actual), KeptByClean))
        /\ (in_expected = Chars("x = 5") /\ out.actual = Chars("The value is x = 5 cm"))
              => out.value = 1
        /\ (in_expected = Chars("36") /\ out.actual = Chars("Answer: 36"))
              => out.value = 1

\* expected "36" has been scored 0.0 against "3_6", which the normalization
\* leaves as it is
C13_Witness ==
    /\ AccuracyScored
    /\ in_expected = Chars("36")
    /\ out.actual = Chars("3_6")
    /\ out.value = 0

(* ------------------------------------------------------------------ *)
(* The rankings (Spec)                                                *)
(* ------------------------------------------------------------------ *)

\* the success records of a strategy, in the order of the record sequence
SuccessRows(name) ==
    SelectSeq(results, LAMBDA r : ~IsError(r) /\ r.strategy = name)

Ranked == pc = "done" /\ rankings.kind = "rankings"

\* C14: get_strategy_rankings scores the success records only, the failure
\* records staying in the record sequence; the overall score of a success
\* record is 0.4 * accuracy + 0.3 * (reasoning / 5)
\* + 0.2 * (1 - hallucination / 3) + 0.1 * consistency (here times 300, the
\* consistency score counted in halves); the score of a strategy is the mean
\* over its success records; the strategies that have a success record are
\* returned once each, by descending mean.
C14_RankingsByWeightedMean ==
    Ranked =>
        /\ \A i \in Successes :
              overall_score(results[i]) =
                  120 * results[i].accuracy_score
                    + 18 * results[i].reasoning_score
                    + 20 * (3 - results[i].hallucination_score)
                    + 15 * Twice(results[i].consistency_score)
        /\ DOMAIN rankings.score = {results[i].strategy : i \in Successes}
        /\ \A name \in DOMAIN rankings.score :
              /\ rankings.score[name].count = Len(SuccessRows(name))
              /\ rankings.score[name].sum = SumOverall(SuccessRows(name))
        /\ Len(rankings.order) = Cardinality(DOMAIN rankings.score)
        /\ Range(rankings.order) = DOMAIN rankings.score
        /\ \A i \in DOMAIN rankings.order, j \in DOMAIN rankings.order :
              i < j =>
                  rankings.score[rankings.order[i]].sum
                        * rankings.score[rankings.order[j]].count
                    >= rankings.score[rankings.order[j]].sum
                        * rankings.score[rankings.order[i]].count
        /\ Cardinality(Failures) =
              Cardinality({j \in DOMAIN trials : FailedMain(trials[j])})
        /\ Len(results) = Len(TEST_PROBLEMS) * Len(strategies)

\* two strategies are ranked, the second of the list first, with a higher
\* mean, and the record sequence holds a failure record
C14_Witness ==
    /\ Ranked
    /\ Len(strategies) = 2
    /\ rankings.order = << strategies[2], strategies[1] >>
    /\ ~MeanGeq(rankings.score[strategies[1]], rankings.score[strategies[2]])
    /\ Failures # {}

(* ------------------------------------------------------------------ *)
(* run_full_evaluation called again on the same evaluator (SpecAgain) *)
(* ------------------------------------------------------------------ *)

\* the most calls of run_full_evaluation on one evaluator
MaxCalls == 2

\* the calls of run_full_evaluation so far: each starts with the main trial
\* of the first pair
RunsStarted ==
    Cardinality({j \in DOMAIN trials :
                    trials[j].phase = "main" /\ trials[j].pi = 1 /\ trials[j].si = 1})

\* of the trials of these runs at most one goes otherwise than well
InitAgain ==
    /\ results = <<>>
    /\ strategies \in StrategyLists
    /\ pc = "idle"
    /\ pi = 0 /\ si = 0
    /\ result = NoValue
    /\ num_runs = 0 /\ run_i = 0 /\ responses = <<>>
    /\ trials = <<>>
    /\ caller = "run_full_evaluation"
    /\ consistency = NoValue
    /\ report = NoValue /\ rankings = NoValue
    /\ clock = 0
    /\ deviations = MaxDeviations - 1
    /\ in_text = <<>> /\ in_expected = <<>> /\ out = NoValue

\* RunAgain were run_full_evaluation to start from an empty list
RunAgain_ResetsRecords ==
    /\ pc = "completed"
    /\ RunsStarted < MaxCalls
    /\ results' = <<>>
    /\ pi' = 1 /\ si' = 1
    /\ pc' = "trial"
    /\ UNCHANGED << strategies, result, trials, caller, clock, deviations >>
    /\ UNCHANGED << probe_vars, report_vars, scorer_vars >>

\* lines 172-180: run_full_evaluation is entered again, self.results being
\* what the earlier call left (it is assigned at line 20 only)
RunAgain ==
    /\ pc = "completed"
    /\ RunsStarted < MaxCalls
    /\ pi' = 1 /\ si' = 1
    /\ pc' = "trial"
    /\ UNCHANGED << results, strategies, result, trials, caller, clock, deviations >>
    /\ UNCHANGED << probe_vars, report_vars, scorer_vars >>

NextAgain == Next \/ RunAgain

SpecAgain == InitAgain /\ [][NextAgain]_vars

\* the records once the calls so far have returned, and what the report and
\* the rankings are made of
RecordsOfAllRuns ==
    /\ RunEnded =>
          Len(results) = RunsStarted * Len(TEST_PROBLEMS) * Len(strategies)
    /\ (pc \in {"reported", "done"} /\ Successes # {}) =>
          /\ report.kind = "report"
          /\ Len(report.detailed_results) = Cardinality(Successes)
    /\ Ranked =>
          \A name \in DOMAIN rankings.score :
              rankings.score[name].count = Len(SuccessRows(name))

\* C15: run_full_evaluation only appends to the record sequence: every step
\* leaves the records already there as a prefix, a second call leaves
\* 2 x |problems| x |strategies| records, and the report and the rankings
\* made afterwards cover the records of both runs.
C15_RunsOnlyAppend ==
    [][IsPrefix(results, results') /\ RecordsOfAllRuns']_vars

\* after two runs of one strategy the rankings are made: the first run left
\* a failure record, and the mean of the strategy is taken over the success
\* records of both runs
C15_Witness ==
    /\ Ranked
    /\ RunsStarted = 2
    /\ Len(strategies) = 1
    /\ Len(results) = 2 * Len(TEST_PROBLEMS)
    /\ IsError(results[1])
    /\ rankings.score[strategies[1]].count = 3

(* ------------------------------------------------------------------ *)
(* Blank answers (SpecExtract)                                        *)
(* ------------------------------------------------------------------ *)

\* the answer extracted from the response has been scored against the
\* expected answer, and the cleaning of line 52 leaves nothing of it
BlankAnswerScored ==
    /\ pc = "scored"
    /\ out.op = "score_accuracy"
    /\ Clean(out.actual) = <<>>

\* C16: whatever the expected answer, an extracted answer that the cleaning
\* turns into the empty string (an empty or punctuation-only answer) gets
\* accuracy 1.0, the empty string being a substring of every string.
C16_BlankAnswerIsAccurate ==
    BlankAnswerScored => out.value = 1

\* a punctuation-only answer, taken from behind an answer label, is scored
\* 1.0 against an expected answer it has nothing in common with
C16_Witness ==
    /\ BlankAnswerScored
    /\ out.actual = Chars("!")
    /\ Clean(in_expected) # <<>>
    /\ out.value = 1

====
